---- MODULE Spec2Model ----
(***************************************************************************)
(* Model of the genes crate: the bit-packed Genes buffer (src/genes.rs),   *)
(* and the GeneticOptimizer evolutionary loop (src/lib.rs).                *)
(*                                                                         *)
(* Three specifications share the module:                                  *)
(*   BitSpec   single-bit get / set / clear / flip / wipe on a buffer made *)
(*             by Genes::new(n);                                           *)
(*   ReadSpec  the typed reads g8 .. g128 on buffers of every length;      *)
(*   Spec      GeneticOptimizer: construction, step(), evolve(), best().   *)
(*                                                                         *)
(* Numbers wider than 16 bits are written as big-endian base-256 numerals  *)
(* (sequences of bytes, most significant first), since 0xDEADBEEF and the  *)
(* 64 / 128 bit values do not fit the checker's integers.                  *)
(***************************************************************************)
EXTENDS Integers, Sequences, FiniteSets, TLC

VARIABLES
    \* ---- Genes under test (BitSpec, ReadSpec)
    inner,          \* Genes.inner: Vec<u8>
    bits,           \* the n given to Genes::new(n); -1 for new_with_genes
    build,          \* "debug" (overflow checks on) or "release" (wrapping)
    calls,          \* BitSpec: the single-bit calls made so far, in order
    read,           \* ReadSpec: the last typed read and what it returned
    \* ---- GeneticOptimizer (Spec)
    population,     \* Vec<Individual>: [score, genes]; index 0 is position 1
    n,              \* number of genes per individual
    mutation_rate,  \* in percent: 5 is 0.05, 150 is 1.5, -10 is -0.1
    target,         \* the Target the caller handed over
    pc,             \* "idle", or where step() stands: "pick", "resample",
                    \* "cross"; "panicked" once a call has unwound
    keep,           \* step(): number of survivors
    idx,            \* step(): the slot being refilled (0-based)
    parent1_idx,    \* step(): the parents drawn for slot idx (0-based)
    parent2_idx,
    generation,     \* number of step() calls begun
    size,           \* history: the size given to new
    lowest,         \* history: the genes of the `keep` lowest-scoring
                    \* candidates, lowest first, as they were when the last
                    \* step() scored them, and whether the scores were
                    \* all different
    survivors,      \* history: the genes the last sort left in the first
                    \* `keep` positions
    best_out,       \* history: position and genes the last best() returned
    scoring         \* history: the positions (0-based) whose genes the last
                    \* step() handed to target.score, in the order of the calls

genesVars == <<inner, bits, build, calls, read>>
optVars == <<population, n, mutation_rate, target, pc, keep, idx, parent1_idx,
             parent2_idx, generation, size, lowest, survivors, best_out,
             scoring>>
vars == <<genesVars, optVars>>

\* ---------------------------------------------------------------- bounds
\* largest n given to Genes::new, and largest bit index used, in BitSpec
MaxBits == 9
\* longest sequence of single-bit calls on one buffer in BitSpec
MaxCalls == 2
\* longest buffer, and largest slot, in ReadSpec
MaxLen == 17
\* largest population handed to GeneticOptimizer::new
MaxSize == 4
\* largest number of step() calls on one optimizer
MaxEpochs == 2

\* ------------------------------------------------------------ bytes, bits
BitsPerByte == 8

Pow2(k) == 2 ^ k

\* (b >> loc) & 1
BitOf(b, loc) == (b \div Pow2(loc)) % 2

\* ------------------------------------------------------------------ Genes
\* Genes::new(n): vec![0u8; (n / 8) as usize]
GenesNew(nbits) == [k \in 1..(nbits \div BitsPerByte) |-> 0]

\* Genes::new_with_genes(genes): the bytes, verbatim
new_with_genes(genes) == genes

\* bucket = idx / 8 (0-based), loc = idx & 0b111
Bucket(ix) == ix \div BitsPerByte
Loc(ix) == ix % BitsPerByte

get(g, ix) ==
    IF Bucket(ix) < Len(g) THEN BitOf(g[Bucket(ix) + 1], Loc(ix)) ELSE 0

\* inner[bucket] |= 1 << loc
set(g, ix) ==
    IF Bucket(ix) < Len(g)
    THEN [g EXCEPT ![Bucket(ix) + 1] =
             IF BitOf(@, Loc(ix)) = 1 THEN @ ELSE @ + Pow2(Loc(ix))]
    ELSE g

\* inner[bucket] &= !(1 << loc)
clear(g, ix) ==
    IF Bucket(ix) < Len(g)
    THEN [g EXCEPT ![Bucket(ix) + 1] =
             IF BitOf(@, Loc(ix)) = 1 THEN @ - Pow2(Loc(ix)) ELSE @]
    ELSE g

\* inner[bucket] ^= 1 << loc
flip(g, ix) ==
    IF Bucket(ix) < Len(g)
    THEN [g EXCEPT ![Bucket(ix) + 1] =
             IF BitOf(@, Loc(ix)) = 1 THEN @ - Pow2(Loc(ix)) ELSE @ + Pow2(Loc(ix))]
    ELSE g

wipe(g) == [k \in 1..Len(g) |-> 0]

\* ------------------------------------------------------------ typed reads
\* A read either returns a value or panics (the thread unwinds).
Returned(v) == [panic |-> FALSE, val |-> v]
Panicked == [panic |-> TRUE, val |-> <<>>]

\* the value 0 of a type `adj` bytes wide
Zero(adj) == [k \in 1..adj |-> 0]

g8(g, loc) ==
    IF loc < Len(g) THEN Returned(<<g[loc + 1]>>) ELSE Returned(Zero(1))

\* mutant of gN: the bytes taken least significant first
gN_LittleEndian(g, slot, adj, bld) ==
    LET loc == slot * adj
        underflow == Len(g) < adj - 1
    IN  IF underflow /\ bld = "debug" THEN Panicked
        ELSE IF underflow \/ loc < Len(g) - (adj - 1)
        THEN IF loc + adj <= Len(g)
             THEN Returned([k \in 1..adj |-> g[loc + adj + 1 - k]])
             ELSE Panicked
        ELSE Returned(Zero(adj))

\* g16 / g32 / g64 / g128 are the same code for adj_factor = 2, 4, 8, 16:
\*     let loc = loc * adj_factor;
\*     if loc < self.inner.len() - (adj_factor - 1) { inner[loc] << .. | .. }
\*     else { 0 }
\* inner.len() - (adj_factor - 1) is a usize subtraction: when the buffer is
\* shorter than adj_factor - 1 it panics where overflow checks are on, and
\* wraps to a number close to 2^64 where they are off; the test then passes
\* and the indexing inner[loc + j] is what is left to stop the read.
gN(g, slot, adj, bld) ==
    LET loc == slot * adj
        underflow == Len(g) < adj - 1
    IN  IF underflow /\ bld = "debug" THEN Panicked
        ELSE IF underflow \/ loc < Len(g) - (adj - 1)
        THEN IF loc + adj <= Len(g)
             THEN Returned([k \in 1..adj |-> g[loc + k]])
             ELSE Panicked \* index out of bounds
        ELSE Returned(Zero(adj))

g16(g, slot, bld) == gN(g, slot, 2, bld)
g32(g, slot, bld) == gN(g, slot, 4, bld)
g64(g, slot, bld) == gN(g, slot, 8, bld)
g128(g, slot, bld) == gN(g, slot, 16, bld)

\* ------------------------------------------------------------- Individual
\* Individual::new_with_genes(genes): score 0.0 and the genes given
Individual_new_with_genes(genes) == [score |-> 0, genes |-> new_with_genes(genes)]

\* ----------------------------------------------------------------- Target
\* Target::score is the caller's. The targets used here read the first byte
\* of the genes as the guess, as the integer-guessing example does: "abs"
\* scores |guess - actual|, "signed" scores guess - actual.
Abs(x) == IF x < 0 THEN -x ELSE x

Targets ==
    { [kind |-> "abs", actual |-> 26],
      [kind |-> "signed", actual |-> 300] }

Score(t, genes) ==
    LET guess == g8(genes, 0).val[1]
    IN  IF t.kind = "abs" THEN Abs(guess - t.actual) ELSE guess - t.actual

\* ------------------------------------------------------- GeneticOptimizer
\* the values rng.gen() gives the bytes of the first population
InitBytes == {24, 25, 27, 30}
\* the n given to new
GeneCounts == {4, 8}
\* the mutation rates given to new, in percent
Rates == {-10, 0, 5, 100, 150}

\* GeneticOptimizer::new(size, n, mutation_rate, target): `random` is what
\* the rng draws for the (n / 8) bytes of each of the size individuals.
\* No argument is checked.
GeneticOptimizer_new(sz, nn, rate, t, random) ==
    [ population |-> [i \in 1..sz |-> Individual_new_with_genes(random[i])],
      n |-> nn,
      mutation_rate |-> rate,
      target |-> t ]

\* for individual in population.iter_mut() { individual.score = target.score(..) }
\* from position i (1-based) on: each individual in turn gets the score of
\* its genes; `seen` collects the positions handed to target.score
RECURSIVE ScoreLoop(_, _, _, _)
ScoreLoop(pop, t, i, seen) ==
    IF i > Len(pop) THEN [population |-> pop, calls |-> seen]
    ELSE ScoreLoop([pop EXCEPT ![i].score = Score(t, pop[i].genes)], t, i + 1,
                   Append(seen, i - 1))

ScoreAll(pop, t) == ScoreLoop(pop, t, 1, <<>>).population

\* mutant of InsertByScore: the comparison turned round, highest score first
InsertByScoreDescending(s, x) ==
    LET k == Cardinality({i \in 1..Len(s) : s[i].score >= x.score})
    IN  SubSeq(s, 1, k) \o <<x>> \o SubSeq(s, k + 1, Len(s))

\* population.sort_by(|a, b| a.score.partial_cmp(&b.score).unwrap()):
\* a stable sort, ascending; x goes behind everything that is not greater
InsertByScore(s, x) ==
    LET k == Cardinality({i \in 1..Len(s) : s[i].score <= x.score})
    IN  SubSeq(s, 1, k) \o <<x>> \o SubSeq(s, k + 1, Len(s))

RECURSIVE SortedPrefix(_, _)
SortedPrefix(pop, k) ==
    IF k = 0 THEN <<>> ELSE InsertByScore(SortedPrefix(pop, k - 1), pop[k])

sort_by(pop) == SortedPrefix(pop, Len(pop))

\* mutant of Evaluate: the sort run before the scoring loop
Evaluate_SortFirst(pop, t) ==
    LET out == ScoreLoop(sort_by(pop), t, 1, <<>>)
    IN  [scored |-> out.population, calls |-> out.calls, ranked |-> out.population]

\* step(), first two statements: the scoring loop, then the sort of what it
\* left
Evaluate(pop, t) ==
    LET out == ScoreLoop(pop, t, 1, <<>>)
    IN  [scored |-> out.population, calls |-> out.calls,
         ranked |-> sort_by(out.population)]

\* let keep = (current_size as f64 * keep_percent) as usize
KeepPercent == 50
Keep(current_size) == (current_size * KeepPercent) \div 100

\* mutant of WipeDropped: the dropped individuals removed from the vector
TruncateDropped(pop, k) == SubSeq(pop, 1, k)

\* mutant of WipeDropped: the wipe starts one position early
WipeFromLastSurvivor(pop, k) ==
    [i \in 1..Len(pop) |-> IF i >= k THEN [pop[i] EXCEPT !.genes = wipe(@)] ELSE pop[i]]

\* for individual in population[keep..].iter_mut() { individual.genes.wipe() }
WipeDropped(pop, k) ==
    [i \in 1..Len(pop) |-> IF i > k THEN [pop[i] EXCEPT !.genes = wipe(@)] ELSE pop[i]]

\* rng.gen_bool(p): panics unless 0 <= p <= 1; never true for p = 0, always
\* true for p = 1, and otherwise whatever the generator draws
ValidProbability(p) == 0 <= p /\ p <= 100
gen_bool(p, draw) == IF p = 0 THEN FALSE ELSE IF p = 100 THEN TRUE ELSE draw

\* the outcomes of gen_bool(0.5), gene by gene, that crossover may see, and
\* those of gen_bool(mutation_rate) for a rate strictly between 0 and 1
CoinFlips(nn) ==
    { [i \in 0..(nn - 1) |-> TRUE],
      [i \in 0..(nn - 1) |-> i % 2 = 0] }

Draws(nn, p) ==
    IF 0 < p /\ p < 100
    THEN { [i \in 0..(nn - 1) |-> FALSE],
           [i \in 0..(nn - 1) |-> i = 0] }
    ELSE { [i \in 0..(nn - 1) |-> FALSE] }

\* crossover, first loop: for idx in 0..n the child takes the gene of p1 or
\* of p2, as the coin falls
RECURSIVE CrossGenes(_, _, _, _, _, _)
CrossGenes(c, p1, p2, coins, i, nn) ==
    IF i >= nn THEN c
    ELSE LET gene == IF coins[i] THEN get(p1, i) ELSE get(p2, i)
         IN  CrossGenes(IF gene = 1 THEN set(c, i) ELSE clear(c, i),
                        p1, p2, coins, i + 1, nn)

\* crossover, second loop: for idx in 0..n, flip the gene if gen_bool says so
RECURSIVE MutateGenes(_, _, _, _, _)
MutateGenes(c, p, draws, i, nn) ==
    IF i >= nn THEN c
    ELSE MutateGenes(IF gen_bool(p, draws[i]) THEN flip(c, i) ELSE c,
                     p, draws, i + 1, nn)

\* mutant of crossover: the mutation loop run before the crossover loop
crossover_MutationFirst(p1, p2, nn, p, coins, draws) ==
    IF nn > 0 /\ ~ValidProbability(p)
    THEN [panic |-> TRUE, genes |-> p1]
    ELSE [panic |-> FALSE,
          genes |-> CrossGenes(MutateGenes(p1, p, draws, 0, nn), p1, p2, coins, 0, nn)]

\* GeneticOptimizer::crossover(p1, p2): c starts as a clone of p1
crossover(p1, p2, nn, p, coins, draws) ==
    LET crossed == CrossGenes(p1, p1, p2, coins, 0, nn)
    IN  IF nn > 0 /\ ~ValidProbability(p)
        THEN [panic |-> TRUE, genes |-> crossed]
        ELSE [panic |-> FALSE, genes |-> MutateGenes(crossed, p, draws, 0, nn)]

\* best(): best_score starts at -1.0 and best at population[0]; a candidate
\* replaces best only if its fresh score is below best_score. Gives the
\* 0-based position of the individual whose genes are returned.
RECURSIVE BestScan(_, _, _, _, _)
BestScan(pop, t, i, best_score, best_pos) ==
    IF i > Len(pop) THEN best_pos
    ELSE LET score == Score(t, pop[i].genes)
         IN  IF score < best_score
             THEN BestScan(pop, t, i + 1, score, i - 1)
             ELSE BestScan(pop, t, i + 1, best_score, best_pos)

best(pop, t) == BestScan(pop, t, 1, -1, 0)

\* ---------------------------------------------------------------- BitSpec
NoRead == [width |-> 0, slot |-> 0, res |-> Returned(<<>>)]
NoBest == [called |-> FALSE, pos |-> 0, genes |-> <<>>]
NoStep == [distinct |-> FALSE, genes |-> <<>>]

\* no optimizer is built in BitSpec and ReadSpec, no Genes under test in Spec
NoOptimizer ==
    /\ population = <<>> /\ n = 0 /\ mutation_rate = 0
    /\ target = [kind |-> "abs", actual |-> 0]
    /\ pc = "idle" /\ keep = 0 /\ idx = 0 /\ parent1_idx = 0 /\ parent2_idx = 0
    /\ generation = 0 /\ size = 0 /\ lowest = NoStep /\ survivors = <<>>
    /\ best_out = NoBest /\ scoring = <<>>

NoGenes ==
    /\ inner = <<>> /\ bits = -1 /\ build = "debug" /\ calls = <<>> /\ read = NoRead

BitInit ==
    /\ NoOptimizer
    /\ bits \in 0..MaxBits
    /\ inner = GenesNew(bits)
    /\ build \in {"debug", "release"}
    /\ calls = <<>>
    /\ read = NoRead

Call(op, ix, res, post) ==
    /\ Len(calls) < MaxCalls
    /\ calls' = Append(calls, [op |-> op, idx |-> ix, res |-> res, pre |-> inner])
    /\ inner' = post
    /\ UNCHANGED <<bits, build, read>>
    /\ UNCHANGED optVars

BitGet == \E ix \in 0..MaxBits : Call("get", ix, get(inner, ix), inner)
BitSet == \E ix \in 0..MaxBits : Call("set", ix, 0, set(inner, ix))
BitClear == \E ix \in 0..MaxBits : Call("clear", ix, 0, clear(inner, ix))
BitFlip == \E ix \in 0..MaxBits : Call("flip", ix, 0, flip(inner, ix))
BitWipe == Call("wipe", 0, 0, wipe(inner))

BitNext == BitGet \/ BitSet \/ BitClear \/ BitFlip \/ BitWipe

BitSpec == BitInit /\ [][BitNext]_vars

\* (C5) For a buffer created by new(n) and every bit index i < n: set(i) then
\* get(i) yields 1; clear(i) then get(i) yields 0; flip(i) applied twice
\* restores the buffer as it was before the first flip.
After(k) == IF k = Len(calls) THEN inner ELSE calls[k + 1].pre

C5_BitRoundTrip ==
    \A k \in 2..Len(calls) :
        LET a == calls[k - 1]
            b == calls[k]
        IN  (a.idx = b.idx /\ a.idx < bits) =>
                /\ (a.op = "set" /\ b.op = "get") => b.res = 1
                /\ (a.op = "clear" /\ b.op = "get") => b.res = 0
                /\ (a.op = "flip" /\ b.op = "flip") => After(k) = a.pre

\* --------------------------------------------------------------- ReadSpec
\* The bytes handed to new_with_genes: the spec's example DE AD BE EF,
\* repeated, or bytes that are all different (1, 2, 3, ...).
ByteOf(pattern, k) ==
    IF pattern = "deadbeef" THEN <<222, 173, 190, 239>>[((k - 1) % 4) + 1] ELSE k

ReadInit ==
    /\ NoOptimizer
    /\ \E len \in 0..MaxLen, pattern \in {"deadbeef", "count"} :
           inner = new_with_genes([k \in 1..len |-> ByteOf(pattern, k)])
    /\ bits = -1
    /\ build \in {"debug", "release"}
    /\ calls = <<>>
    /\ read = NoRead

Reads(width, slot, res) ==
    /\ read' = [width |-> width, slot |-> slot, res |-> res]
    /\ UNCHANGED <<inner, bits, build, calls>>
    /\ UNCHANGED optVars

Read8 == \E slot \in 0..MaxLen : Reads(8, slot, g8(inner, slot))
Read16 == \E slot \in 0..MaxLen : Reads(16, slot, g16(inner, slot, build))
Read32 == \E slot \in 0..MaxLen : Reads(32, slot, g32(inner, slot, build))
Read64 == \E slot \in 0..MaxLen : Reads(64, slot, g64(inner, slot, build))
Read128 == \E slot \in 0..MaxLen : Reads(128, slot, g128(inner, slot, build))

ReadNext == Read8 \/ Read16 \/ Read32 \/ Read64 \/ Read128

ReadSpec == ReadInit /\ [][ReadNext]_vars

\* the bytes of slot `slot` of the `width`-bit view lie inside the buffer
Adj(width) == width \div BitsPerByte
InRange(width, slot) == slot * Adj(width) + Adj(width) <= Len(inner)

\* (C6) A read of any width at a slot whose byte range is not fully inside
\* the buffer returns 0 and never fails.
C6_OutOfRangeReadsZero ==
    (read.width > 0 /\ ~InRange(read.width, read.slot)) =>
        read.res = Returned(Zero(Adj(read.width)))

\* the number a numeral of at most two base-256 digits stands for
RECURSIVE Num(_)
Num(digits) ==
    IF digits = <<>> THEN 0
    ELSE 256 * Num(SubSeq(digits, 1, Len(digits) - 1)) + digits[Len(digits)]

\* (C7) A read at an in-range slot s returns the big-endian value of bytes
\* [s*(k/8), s*(k/8)+k/8), first byte most significant; [DE,AD,BE,EF] reads
\* 0xDE, 0xDEAD and 0xDEADBEEF at slot 0; the last complete slot is readable.
C7_InRangeReadsBigEndian ==
    (read.width > 0 /\ InRange(read.width, read.slot)) =>
        /\ ~read.res.panic
        /\ Len(read.res.val) = Adj(read.width)
        /\ \A j \in 1..Adj(read.width) :
               read.res.val[j] = inner[read.slot * Adj(read.width) + j]
        /\ read.width = 16 =>
               Num(read.res.val) = 256 * inner[2 * read.slot + 1] + inner[2 * read.slot + 2]
        /\ (inner = <<222, 173, 190, 239>> /\ read.slot = 0) =>
               /\ read.width = 8 => Num(read.res.val) = 222
               /\ read.width = 16 => Num(read.res.val) = 57005
               /\ read.width = 32 => read.res.val = <<222, 173, 190, 239>>

\* the 32-bit read of [DE,AD,BE,EF], and the last complete 128-bit slot
C7_Witness ==
    \/ /\ inner = <<222, 173, 190, 239>>
       /\ read = [width |-> 32, slot |-> 0, res |-> Returned(<<222, 173, 190, 239>>)]
    \/ /\ Len(inner) = 16 /\ read.width = 128 /\ read.slot = 0
       /\ read.res.val[1] = 1 /\ read.res.val[16] = 16

\* ------------------------------------------------------------------- Spec
\* The optimizer as GeneticOptimizer::new leaves it.
Init ==
    /\ NoGenes
    /\ \E sz \in 0..MaxSize, nn \in GeneCounts, rate \in Rates, t \in Targets :
         \E random \in [1..sz -> [1..(nn \div BitsPerByte) -> InitBytes]] :
            LET opt == GeneticOptimizer_new(sz, nn, rate, t, random)
            IN  /\ population = opt.population
                /\ n = opt.n
                /\ mutation_rate = opt.mutation_rate
                /\ target = opt.target
                /\ size = sz
    /\ pc = "idle" /\ keep = 0 /\ idx = 0 /\ parent1_idx = 0 /\ parent2_idx = 0
    /\ generation = 0 /\ lowest = NoStep /\ survivors = <<>>
    /\ best_out = NoBest /\ scoring = <<>>

\* The genes of the k candidates of `pop` with the lowest scores, lowest
\* first: the one ranked r has exactly r - 1 candidates scoring below it.
\* Defined when the scores are all different.
DistinctScores(pop) ==
    \A i, j \in 1..Len(pop) : i # j => pop[i].score # pop[j].score

Lowest(pop, k) ==
    IF DistinctScores(pop)
    THEN [ distinct |-> TRUE,
           genes |-> [r \in 1..k |->
              LET i == CHOOSE i \in 1..Len(pop) :
                          Cardinality({j \in 1..Len(pop) : pop[j].score < pop[i].score}) = r - 1
              IN  pop[i].genes] ]
    ELSE [distinct |-> FALSE, genes |-> <<>>]

\* step(), called by the caller or by the loop of evolve(epochs), up to the
\* head of the refill loop `for idx in keep..current_size`: score everyone,
\* sort, wipe the genes of the dropped half.
StepBegin ==
    /\ pc = "idle"
    /\ generation < MaxEpochs
    /\ generation' = generation + 1
    /\ LET evaluated == Evaluate(population, target)
           scored == evaluated.scored
           ranked == evaluated.ranked
       IN  /\ scoring' = evaluated.calls
           /\ keep' = Keep(Len(ranked))
           /\ population' = WipeDropped(ranked, keep')
           /\ lowest' = Lowest(scored, Len(scored) \div 2)
           /\ survivors' = [i \in 1..keep' |-> ranked[i].genes]
    /\ idx' = keep'
    /\ parent1_idx' = 0
    /\ parent2_idx' = 0
    /\ pc' = IF keep' < Len(population') THEN "pick" ELSE "idle"
    /\ best_out' = NoBest \* the borrow best() returned has ended
    /\ UNCHANGED <<n, mutation_rate, target, size>>
    /\ UNCHANGED genesVars

\* rng.gen_range(0..keep) panics on the empty range 0..0
PickPanics ==
    /\ pc = "pick"
    /\ keep = 0
    /\ pc' = "panicked"
    /\ UNCHANGED <<population, n, mutation_rate, target, keep, idx, parent1_idx,
                   parent2_idx, generation, size, lowest, survivors, best_out, scoring>>
    /\ UNCHANGED genesVars

\* let parent1_idx = rng.gen_range(0..keep);
\* let mut parent2_idx = rng.gen_range(0..keep);
PickParents ==
    /\ pc = "pick"
    /\ keep > 0
    /\ \E a \in 0..(keep - 1), b \in 0..(keep - 1) :
          /\ parent1_idx' = a
          /\ parent2_idx' = b
          /\ pc' = IF a = b THEN "resample" ELSE "cross"
    /\ UNCHANGED <<population, n, mutation_rate, target, keep, idx, generation,
                   size, lowest, survivors, best_out, scoring>>
    /\ UNCHANGED genesVars

\* while parent1_idx == parent2_idx { parent2_idx = rng.gen_range(0..keep); }
Resample ==
    /\ pc = "resample"
    /\ \E b \in 0..(keep - 1) :
          /\ parent2_idx' = b
          /\ pc' = IF parent1_idx = b THEN "resample" ELSE "cross"
    /\ UNCHANGED <<population, n, mutation_rate, target, keep, idx, parent1_idx,
                   generation, size, lowest, survivors, best_out, scoring>>
    /\ UNCHANGED genesVars

\* what crossover gives for the clones of the two parents drawn
Offspring(coins, draws) ==
    crossover(population[parent1_idx + 1].genes, population[parent2_idx + 1].genes,
              n, mutation_rate, coins, draws)

\* gen_bool(mutation_rate) panics inside crossover: step() unwinds
CrossoverPanics ==
    /\ pc = "cross"
    /\ \E coins \in CoinFlips(n), draws \in Draws(n, mutation_rate) :
          Offspring(coins, draws).panic
    /\ pc' = "panicked"
    /\ UNCHANGED <<population, n, mutation_rate, target, keep, idx, parent1_idx,
                   parent2_idx, generation, size, lowest, survivors, best_out, scoring>>
    /\ UNCHANGED genesVars

\* *self.population[idx].genes_mut() = self.crossover(parent1, parent2);
\* then the next idx, or the end of step()
Refill ==
    /\ pc = "cross"
    /\ \E coins \in CoinFlips(n), draws \in Draws(n, mutation_rate) :
          LET out == Offspring(coins, draws)
          IN  /\ ~out.panic
              /\ population' = [population EXCEPT ![idx + 1].genes = out.genes]
    /\ idx' = idx + 1
    /\ pc' = IF idx' < Len(population) THEN "pick" ELSE "idle"
    /\ UNCHANGED <<n, mutation_rate, target, keep, parent1_idx, parent2_idx,
                   generation, size, lowest, survivors, best_out, scoring>>
    /\ UNCHANGED genesVars

\* best() on an empty population: &self.population[0] is out of bounds
BestPanics ==
    /\ pc = "idle"
    /\ Len(population) = 0
    /\ pc' = "panicked"
    /\ UNCHANGED <<population, n, mutation_rate, target, keep, idx, parent1_idx,
                   parent2_idx, generation, size, lowest, survivors, best_out, scoring>>
    /\ UNCHANGED genesVars

\* best(): the scores kept in the individuals are neither read nor written
Best ==
    /\ pc = "idle"
    /\ Len(population) > 0
    /\ LET pos == best(population, target)
       IN  best_out' = [called |-> TRUE, pos |-> pos, genes |-> population[pos + 1].genes]
    /\ UNCHANGED <<population, n, mutation_rate, target, pc, keep, idx, parent1_idx,
                   parent2_idx, generation, size, lowest, survivors, scoring>>
    /\ UNCHANGED genesVars

Next ==
    \/ StepBegin
    \/ PickPanics
    \/ PickParents
    \/ Resample
    \/ CrossoverPanics
    \/ Refill
    \/ BestPanics
    \/ Best

Spec == Init /\ [][Next]_vars

\* ----------------------------------------------------------------- claims
\* (C1) The number of individuals after each step() equals the number before
\* it, i.e. the size given at construction, however many steps are run.
C1_PopulationSizeConstant == Len(population) = size

\* two step() calls have run to their end on a population of four
C1_Witness ==
    /\ pc = "idle" /\ generation = 2 /\ size = 4 /\ Len(population) = 4

C3_BestIsMinimal ==
    best_out.called =>
        \A j \in 1..Len(population) :
            Score(target, best_out.genes) <= Score(target, population[j].genes)

\* (C4) No optimizer exists with a population size below 2 or a mutation
\* rate outside [0,1], and so no call on an optimizer fails mid-run.
C4_InvalidConfigurationRejected ==
    /\ size >= 2
    /\ ValidProbability(mutation_rate)
    /\ pc # "panicked"

\* (C8) For a population of at least 2, the loop that resamples the second
\* parent until it differs from the first can always exit: some index in
\* 0..keep differs from the first parent's.
C8_ResampleCanExit ==
    (pc = "resample" /\ size >= 2) =>
        \E b \in 0..(keep - 1) : b # parent1_idx

\* (C9) step() leaves the genes of every survivor, the candidates the sort
\* ranked in the first floor(size/2) positions, bit for bit unchanged.
C9_SurvivorsUntouched ==
    generation >= 1 =>
        /\ Len(survivors) = keep
        /\ keep = Len(population) \div 2
        /\ \A i \in 1..keep : population[i].genes = survivors[i]

\* a child mixed from both parents has been written behind the survivors
C9_Witness ==
    /\ generation >= 1 /\ pc \in {"pick", "idle"} /\ idx > keep /\ keep = 2
    /\ population[idx].genes \notin {survivors[1], survivors[2]}
    /\ survivors[1] # survivors[2]

\* (C10) Every child written by step() goes to a dropped slot and is built
\* from two survivors at distinct indices. With mutation_rate = 0 each gene
\* i < n of the child is gene i of one of the two parents. Mutation comes
\* after the crossover of the child is complete: with mutation_rate = 1
\* each stored gene of the child is the inverse of that gene of a parent.
C10_ChildFromTwoSurvivors ==
    [][ (pc = "cross" /\ pc' \in {"pick", "idle"}) =>
          LET child == population'[idx + 1].genes
              parent1 == population[parent1_idx + 1].genes
              parent2 == population[parent2_idx + 1].genes
          IN  /\ parent1_idx # parent2_idx
              /\ parent1_idx < keep /\ parent2_idx < keep
              /\ idx >= keep
              /\ Len(child) = Len(parent1)
              /\ mutation_rate = 0 =>
                    \A i \in 0..(n - 1) :
                        get(child, i) \in {get(parent1, i), get(parent2, i)}
              /\ mutation_rate = 100 =>
                    \A i \in 0..(n - 1) :
                        Bucket(i) < Len(child) =>
                            1 - get(child, i) \in {get(parent1, i), get(parent2, i)}
      ]_vars

\* with mutation_rate = 0, a child that is neither parent: 25 and 30 give 27
C10_Witness ==
    /\ pc = "pick" /\ idx > keep /\ mutation_rate = 0 /\ n = 8
    /\ parent1_idx # parent2_idx
    /\ population[idx].genes = <<27>>
    /\ {population[parent1_idx + 1].genes, population[parent2_idx + 1].genes}
          = {<<25>>, <<30>>}

\* (C11) Within each step() the scoring function is invoked exactly once per
\* candidate, in population order, and all the invocations are complete
\* before the sort, the selection and any crossover or mutation begin: the
\* sort ranks by the scores of this step (they ascend, and each survivor
\* carries the score of its own genes), and wherever step() draws parents
\* or writes a child every candidate has been scored.
C11_ScoredOnceInOrderBeforeSort ==
    generation >= 1 =>
        /\ scoring = [k \in 1..size |-> k - 1]
        /\ \A i, j \in 1..Len(population) :
              i < j => population[i].score <= population[j].score
        /\ \A i \in 1..keep :
              population[i].score = Score(target, population[i].genes)
        /\ pc \in {"pick", "resample", "cross"} => Len(scoring) = Len(population)

\* step() is about to cross two parents; the four calls 0, 1, 2, 3 are over
\* and gave scores that are not all equal
C11_Witness ==
    /\ generation >= 1 /\ pc = "cross" /\ n = 8
    /\ scoring = <<0, 1, 2, 3>>
    /\ population[1].score < population[2].score
    /\ population[2].score < population[4].score

====
